---- MODULE Spec2Model ----
(***************************************************************************)
(* Model of db_init.py: the schema initializer of the subscribers store.   *)
(*                                                                         *)
(* The program is a straight line of five calls into the sqlite3 module    *)
(* (connect, cursor, execute, commit, close) followed by a print.  The     *)
(* state is the storage location (directory, file, schema catalog, rows,   *)
(* schema cookie, write lock) and, per process running the script, its     *)
(* position, its connection, the prepared statement and what it printed.   *)
(* sqlite3 runs DDL in autocommit mode: the Python module opens an         *)
(* implicit transaction only before INSERT/UPDATE/DELETE/REPLACE, so the   *)
(* CREATE TABLE statement is durable when execute() returns and commit()   *)
(* finds no open transaction.                                              *)
(***************************************************************************)
EXTENDS Integers, Sequences, FiniteSets, TLC

\* ---------------------------------------------------------------- bounds
MaxRuns == 3
MaxRows == 2

Procs == {1, 2}
RowKeys == 1..MaxRows
Payloads == {"a", "b"}

\* ------------------------------------------------------- schema (lines 9-15)
TableName == "subscribers"

Col(n, t, k) == [name |-> n, type |-> t, pk |-> k]

\* Mutant of the column list: the last two columns swapped.
SubscribersColumnsSwapped ==
    << Col("row_key", "TEXT", TRUE),
       Col("act_dt", "TEXT", FALSE),
       Col("sub_id", "TEXT", FALSE) >>

SubscribersColumns ==
    << Col("row_key", "TEXT", TRUE),
       Col("sub_id", "TEXT", FALSE),
       Col("act_dt", "TEXT", FALSE) >>

SubscribersTable == [name |-> TableName, cols |-> SubscribersColumns]

\* Mutants of the statement: without IF NOT EXISTS, and dropping the table first.
DDLPlainCreate == [kind |-> "create", table |-> SubscribersTable]

DDLDropAndCreate == [kind |-> "drop_and_create", table |-> SubscribersTable]

\* The one statement the program executes.
DDL == [kind |-> "create_if_not_exists", table |-> SubscribersTable]

\* Tables a location may hold before the program first runs.
OtherTable == [name |-> "other", cols |-> << Col("x", "INTEGER", FALSE) >>]

ExtraColumn ==
    [name |-> TableName,
     cols |-> Append(SubscribersColumns, Col("extra", "TEXT", FALSE))]

MissingColumn ==
    [name |-> TableName, cols |-> SubSeq(SubscribersColumns, 1, 2)]

RetypedColumn ==
    [name |-> TableName,
     cols |-> << Col("row_key", "INTEGER", TRUE),
                 Col("sub_id", "TEXT", FALSE),
                 Col("act_dt", "TEXT", FALSE) >>]

MismatchedTables == {ExtraColumn, MissingColumn, RetypedColumn}

\* ------------------------------------------------------- storage engine
HasTable(cat, n) == \E i \in 1..Len(cat) : cat[i].name = n

TablesNamed(cat, n) == {i \in 1..Len(cat) : cat[i].name = n}

KeepOthers(cat, n) == SelectSeq(cat, LAMBDA t : t.name # n)

\* What the engine compiles the statement to against the catalog it reads.
Plan(stmt, cat) ==
    IF ~HasTable(cat, stmt.table.name) THEN "create"
    ELSE IF stmt.kind = "create_if_not_exists" THEN "noop"
    ELSE IF stmt.kind = "drop_and_create" THEN "replace"
    ELSE "exists_error"

\* The durable effect of running a compiled statement that writes.
Effect(plan, stmt, d) ==
    IF plan = "create"
    THEN [d EXCEPT !.catalog = Append(@, stmt.table), !.cookie = @ + 1]
    ELSE IF plan = "replace"
    THEN [catalog |-> Append(KeepOthers(d.catalog, stmt.table.name), stmt.table),
          rows |-> {},
          cookie |-> d.cookie + 1]
    ELSE d

VARIABLES
    parent,     \* directory of db_path: "missing", "readonly" or "writable"
    diskFull,   \* the volume has no room for new pages
    file,       \* a file exists at db_path
    db,         \* durable content: [catalog, rows, cookie]
    writer,     \* process holding the engine's write lock, 0 when free
    pc,         \* per process: position in the script
    conn,       \* per process: "none", "open" or "closed"
    plan,       \* per process: the compiled statement
    seen,       \* per process: schema cookie the statement was compiled against
    err,        \* per process: the error that ended the run, "none" otherwise
    out,        \* per process: number of confirmation lines printed
    log,        \* per process: calls completed in this run, in order
    wrote,      \* per process: this run changed the schema
    pre,        \* per process: file and db when the run started
    runs,       \* runs started so far
    hist        \* the initial store, then the store after each invocation
                \* that returned, in order

vars == << parent, diskFull, file, db, writer, pc, conn, plan, seen, err, out,
           log, wrote, pre, runs, hist >>

Store == [file |-> file, db |-> db]

\* ------------------------------------------------------- initial states
UniqueKeys(rs) == \A r1 \in rs, r2 \in rs : r1[1] = r2[1] => r1 = r2

RowSets == {rs \in SUBSET (RowKeys \X Payloads) : UniqueKeys(rs)}

InitialDbs ==
    {[catalog |-> c, rows |-> {}, cookie |-> Len(c)] :
        c \in {<< >>, << OtherTable >>}}
    \cup
    {[catalog |-> c, rows |-> rs, cookie |-> Len(c)] :
        c \in {<< t >> : t \in MismatchedTables \cup {SubscribersTable}}
              \cup {<< OtherTable, SubscribersTable >>},
        rs \in RowSets}

EmptyDb == [catalog |-> << >>, rows |-> {}, cookie |-> 0]

InitStore ==
    /\ parent \in {"missing", "readonly", "writable"}
    /\ diskFull \in BOOLEAN
    /\ file \in BOOLEAN
    /\ parent = "missing" => ~file
    /\ db \in (IF file THEN InitialDbs ELSE {EmptyDb})
    /\ writer = 0

InitProcs(active) ==
    /\ pc = [p \in Procs |-> IF p \in active THEN "connect" ELSE "idle"]
    /\ conn = [p \in Procs |-> "none"]
    /\ plan = [p \in Procs |-> "none"]
    /\ seen = [p \in Procs |-> 0]
    /\ err = [p \in Procs |-> "none"]
    /\ out = [p \in Procs |-> 0]
    /\ log = [p \in Procs |-> << >>]
    /\ wrote = [p \in Procs |-> FALSE]
    /\ pre = [p \in Procs |-> Store]
    /\ runs = Cardinality(active)
    /\ hist = << [store |-> Store, wrote |-> FALSE] >>

Init == InitStore /\ InitProcs({1})

InitConc == InitStore /\ InitProcs(Procs)

\* ------------------------------------------------------- the script
\* Mutant of Raise: the error is swallowed and the script carries on.
RaiseSwallowed(p, e) ==
    /\ pc' = [pc EXCEPT ![p] = "print"]
    /\ err' = [err EXCEPT ![p] = e]

\* No handler anywhere: an error ends the process.
Raise(p, e) ==
    /\ pc' = [pc EXCEPT ![p] = "failed"]
    /\ err' = [err EXCEPT ![p] = e]

Goto(p, l) ==
    /\ pc' = [pc EXCEPT ![p] = l]
    /\ err' = err

Logged(p, e) == log' = [log EXCEPT ![p] = Append(@, e)]

\* Mutant of Connect: the directory is made first, so connecting never fails.
ConnectMakesParent(p) ==
    /\ pc[p] = "connect"
    /\ file' = TRUE
    /\ conn' = [conn EXCEPT ![p] = "open"]
    /\ Goto(p, "cursor")
    /\ Logged(p, "connect")
    /\ UNCHANGED << parent, diskFull, db, writer, plan, seen, out, wrote, pre,
                    runs, hist >>

\* Mutant of Connect: the connection is not backed by the file at db_path.
ConnectNoFile(p) ==
    /\ pc[p] = "connect"
    /\ file \/ parent = "writable"
    /\ conn' = [conn EXCEPT ![p] = "open"]
    /\ Goto(p, "cursor")
    /\ Logged(p, "connect")
    /\ UNCHANGED << parent, diskFull, file, db, writer, plan, seen, out, wrote,
                    pre, runs, hist >>

\* line 6: conn = sqlite3.connect(db_path); the file is created when absent.
Connect(p) ==
    /\ pc[p] = "connect"
    /\ file \/ parent = "writable"
    /\ file' = TRUE
    /\ conn' = [conn EXCEPT ![p] = "open"]
    /\ Goto(p, "cursor")
    /\ Logged(p, "connect")
    /\ UNCHANGED << parent, diskFull, db, writer, plan, seen, out, wrote, pre,
                    runs, hist >>

\* line 6: the location cannot be opened.
ConnectFail(p) ==
    /\ pc[p] = "connect"
    /\ ~file /\ parent # "writable"
    /\ Raise(p, "open_failed")
    /\ UNCHANGED << parent, diskFull, file, db, writer, conn, plan, seen, out,
                    log, wrote, pre, runs, hist >>

\* line 7: cursor = conn.cursor()
Cursor(p) ==
    /\ pc[p] = "cursor"
    /\ Goto(p, "execute")
    /\ UNCHANGED << parent, diskFull, file, db, writer, conn, plan, seen, out,
                    log, wrote, pre, runs, hist >>

\* The statement was compiled against the schema the file holds now.
CookieUnchecked(p) == TRUE

CookieOk(p) == seen[p] = db.cookie

Writes(p) == plan[p] \in {"create", "replace"}

\* lines 9-15, compile: the engine reads the catalog and compiles the statement.
Prepare(p) ==
    /\ pc[p] = "execute"
    /\ writer = 0
    /\ plan' = [plan EXCEPT ![p] = Plan(DDL, db.catalog)]
    /\ seen' = [seen EXCEPT ![p] = db.cookie]
    /\ IF Plan(DDL, db.catalog) = "exists_error"
       THEN Raise(p, "exists")
       ELSE Goto(p, "step")
    /\ UNCHANGED << parent, diskFull, file, db, writer, conn, out, log, wrote,
                    pre, runs, hist >>

\* lines 9-15, run: the table exists, the statement does nothing.
StepNoop(p) ==
    /\ pc[p] = "step"
    /\ plan[p] = "noop"
    /\ writer = 0
    /\ Goto(p, "commit")
    /\ Logged(p, "execute")
    /\ UNCHANGED << parent, diskFull, file, db, writer, conn, plan, seen, out,
                    wrote, pre, runs, hist >>

\* lines 9-15, run: the statement takes the write lock.
StepBegin(p) ==
    /\ pc[p] = "step"
    /\ Writes(p)
    /\ writer = 0
    /\ parent = "writable"
    /\ CookieOk(p)
    /\ writer' = p
    /\ Goto(p, "write")
    /\ UNCHANGED << parent, diskFull, file, db, conn, plan, seen, out, log,
                    wrote, pre, runs, hist >>

\* lines 9-15, run: no journal can be made beside the file.
StepReadonly(p) ==
    /\ pc[p] = "step"
    /\ Writes(p)
    /\ writer = 0
    /\ parent # "writable"
    /\ Raise(p, "readonly")
    /\ UNCHANGED << parent, diskFull, file, db, writer, conn, plan, seen, out,
                    log, wrote, pre, runs, hist >>

\* lines 9-15, run: the schema changed since the statement was compiled.
Reprepare(p) ==
    /\ pc[p] = "step"
    /\ Writes(p)
    /\ writer = 0
    /\ parent = "writable"
    /\ ~CookieOk(p)
    /\ Goto(p, "execute")
    /\ UNCHANGED << parent, diskFull, file, db, writer, conn, plan, seen, out,
                    log, wrote, pre, runs, hist >>

\* lines 9-15, run: the table is written and, in autocommit mode, committed.
StepWrite(p) ==
    /\ pc[p] = "write"
    /\ ~diskFull
    /\ db' = Effect(plan[p], DDL, db)
    /\ writer' = 0
    /\ wrote' = [wrote EXCEPT ![p] = TRUE]
    /\ Goto(p, "commit")
    /\ Logged(p, "execute")
    /\ UNCHANGED << parent, diskFull, file, conn, plan, seen, out, pre, runs,
                    hist >>

\* Mutant of WriteFail: the failed statement is not rolled back.
WriteFailKept(p) ==
    /\ pc[p] = "write"
    /\ diskFull
    /\ db' = Effect(plan[p], DDL, db)
    /\ writer' = 0
    /\ Raise(p, "full")
    /\ UNCHANGED << parent, diskFull, file, conn, plan, seen, out, log, wrote,
                    pre, runs, hist >>

\* lines 9-15, run: the write fails and the engine rolls the statement back.
WriteFail(p) ==
    /\ pc[p] = "write"
    /\ diskFull
    /\ writer' = 0
    /\ Raise(p, "full")
    /\ UNCHANGED << parent, diskFull, file, db, conn, plan, seen, out, log,
                    wrote, pre, runs, hist >>

\* lines 9-15, run: another process is reading inside its own statement for
\* longer than the busy timeout; the write is rolled back.
WriteBusy(p) ==
    /\ pc[p] = "write"
    /\ \E q \in Procs \ {p} : pc[q] = "step"
    /\ writer' = 0
    /\ Raise(p, "locked")
    /\ UNCHANGED << parent, diskFull, file, db, conn, plan, seen, out, log,
                    wrote, pre, runs, hist >>

\* lines 9-15: another process holds the lock until the busy timeout expires.
ExecBusy(p) ==
    /\ pc[p] \in {"execute", "step"}
    /\ writer \notin {0, p}
    /\ Raise(p, "locked")
    /\ UNCHANGED << parent, diskFull, file, db, writer, conn, plan, seen, out,
                    log, wrote, pre, runs, hist >>

\* line 16: conn.commit(); no transaction is open, nothing is written.
Commit(p) ==
    /\ pc[p] = "commit"
    /\ Goto(p, "close")
    /\ Logged(p, "commit")
    /\ UNCHANGED << parent, diskFull, file, db, writer, conn, plan, seen, out,
                    wrote, pre, runs, hist >>

\* line 17: conn.close(); initialize_db returns.
Close(p) ==
    /\ pc[p] = "close"
    /\ conn' = [conn EXCEPT ![p] = "closed"]
    /\ Goto(p, "print")
    /\ Logged(p, "close")
    /\ hist' = Append(hist, [store |-> Store, wrote |-> wrote[p]])
    /\ UNCHANGED << parent, diskFull, file, db, writer, plan, seen, out, wrote,
                    pre, runs >>

\* line 21: print("Database initialized successfully!")
PrintSuccess(p) ==
    /\ pc[p] = "print"
    /\ out' = [out EXCEPT ![p] = @ + 1]
    /\ Goto(p, "done")
    /\ Logged(p, "print")
    /\ UNCHANGED << parent, diskFull, file, db, writer, conn, plan, seen,
                    wrote, pre, runs, hist >>

\* lines 19-20: the script is started again, as a new process.
Rerun(p) ==
    /\ pc[p] \in {"done", "failed"}
    /\ runs < MaxRuns
    /\ runs' = runs + 1
    /\ pc' = [pc EXCEPT ![p] = "connect"]
    /\ conn' = [conn EXCEPT ![p] = "none"]
    /\ plan' = [plan EXCEPT ![p] = "none"]
    /\ seen' = [seen EXCEPT ![p] = 0]
    /\ err' = [err EXCEPT ![p] = "none"]
    /\ out' = [out EXCEPT ![p] = 0]
    /\ log' = [log EXCEPT ![p] = << >>]
    /\ wrote' = [wrote EXCEPT ![p] = FALSE]
    /\ pre' = [pre EXCEPT ![p] = Store]
    /\ UNCHANGED << parent, diskFull, file, db, writer, hist >>

Next ==
    \/ \E p \in Procs : Connect(p)
    \/ \E p \in Procs : ConnectFail(p)
    \/ \E p \in Procs : Cursor(p)
    \/ \E p \in Procs : Prepare(p)
    \/ \E p \in Procs : StepNoop(p)
    \/ \E p \in Procs : StepBegin(p)
    \/ \E p \in Procs : StepReadonly(p)
    \/ \E p \in Procs : StepWrite(p)
    \/ \E p \in Procs : WriteFail(p)
    \/ \E p \in Procs : Commit(p)
    \/ \E p \in Procs : Close(p)
    \/ \E p \in Procs : PrintSuccess(p)
    \/ \E p \in Procs : Rerun(p)

NextConc ==
    \/ Next
    \/ \E p \in Procs : Reprepare(p)
    \/ \E p \in Procs : ExecBusy(p)
    \/ \E p \in Procs : WriteBusy(p)

\* One process at a time: the script run up to MaxRuns times in sequence.
Spec == Init /\ [][Next]_vars

\* Two processes running the script against the same location.
SpecConc == InitConc /\ [][NextConc]_vars

\* ------------------------------------------------------- properties
\* The processes running the script.
Active == {p \in Procs : pc[p] # "idle"}

Terminated(p) == pc[p] \in {"done", "failed"}

Returned(p) == pc[p] \in {"print", "done"}

HadTable(p) == HasTable(pre[p].db.catalog, TableName)

Fresh == ~hist[1].store.file

TheTable(cat) == cat[CHOOSE i \in TablesNamed(cat, TableName) : TRUE]

OneTable(cat) == Cardinality(TablesNamed(cat, TableName)) = 1

\* Three columns row_key, sub_id, act_dt in this order, all TEXT, row_key the
\* only primary key.
SpecifiedShape(t) ==
    /\ t.name = "subscribers"
    /\ Len(t.cols) = 3
    /\ t.cols[1].name = "row_key" /\ t.cols[2].name = "sub_id"
    /\ t.cols[3].name = "act_dt"
    /\ \A i \in 1..3 : t.cols[i].type = "TEXT" /\ (t.cols[i].pk <=> i = 1)

\* C1: whenever a run of the script has ended, by return or by an error raised
\* after connect succeeded, its connection is not open.
C1_ConnectionReleased ==
    \A p \in Active : Terminated(p) => conn[p] # "open"

\* C2: starting from a location with no file, the store after every invocation
\* that returned equals the store after the first one, which holds exactly one
\* table subscribers with the three columns; no invocation after the first
\* changes the schema, and once one invocation has returned none raises.
C2_Idempotent ==
    Fresh =>
        /\ \A i \in 2..Len(hist) :
              /\ hist[i].store = hist[2].store
              /\ hist[i].store.file
              /\ OneTable(hist[i].store.db.catalog)
              /\ SpecifiedShape(TheTable(hist[i].store.db.catalog))
              /\ Len(hist[i].store.db.catalog) = 1
              /\ i > 2 => ~hist[i].wrote
        /\ Len(hist) >= 2 => \A p \in Active : pc[p] # "failed"

C2_Witness ==
    Fresh /\ Len(hist) >= 3 /\ hist[2].wrote /\ pc[1] = "done"

\* C3: in a run that started with the subscribers table present, the rows are
\* at every step the rows the run started with.
C3_RowsUnchanged ==
    \A p \in Active : HadTable(p) => db.rows = pre[p].db.rows

C3_Witness ==
    pc[1] = "done" /\ HadTable(1) /\ Cardinality(pre[1].db.rows) = MaxRows

\* C4: after initialize_db returned in a run that started without the
\* subscribers table, the catalog holds exactly one table subscribers, with
\* columns row_key, sub_id, act_dt in this order, all TEXT, row_key alone the
\* primary key.
C4_SchemaShape ==
    \A p \in Active :
        (Returned(p) /\ ~HadTable(p)) =>
            /\ OneTable(db.catalog)
            /\ SpecifiedShape(TheTable(db.catalog))

C4_Witness ==
    pc[1] = "done" /\ ~HadTable(1) /\ wrote[1]

\* C5: the message is printed at most once, and only after connect, execute,
\* commit and close completed in this order with the connection closed and no
\* error; a run that ended normally printed it, a run ended by an error did
\* not and carries the error.
C5_MessageIffSuccess ==
    \A p \in Active :
        /\ out[p] <= 1
        /\ out[p] = 1 =>
              /\ log[p] = << "connect", "execute", "commit", "close", "print" >>
              /\ conn[p] = "closed"
              /\ err[p] = "none"
        /\ pc[p] = "done" => out[p] = 1
        /\ pc[p] = "failed" => out[p] = 0 /\ err[p] # "none"
        /\ err[p] # "none" => pc[p] = "failed"

C5_Witness ==
    \E p \in Active, q \in Active :
        /\ pc[p] = "done" /\ out[p] = 1
        /\ pc[q] = "failed" /\ err[q] = "locked"

\* C6 as stated: whenever the parent directory is missing or not writable, a
\* run that ended failed at connect, executed nothing, left the store as it
\* was, and no file exists at the location.
C6_Original ==
    \A p \in Active :
        (parent # "writable" /\ Terminated(p)) =>
            /\ err[p] = "open_failed"
            /\ log[p] = << >>
            /\ Store = pre[p]
            /\ ~file

\* C6: when the parent directory is missing, or is not writable and no file
\* exists yet at the location, the run never gets past connect: it executes
\* nothing, leaves the store as it was with no file at the location, and
\* ends with the error raised by connect.
C6_UnopenableFails ==
    \A p \in Active :
        (parent # "writable" /\ ~pre[p].file) =>
            /\ pc[p] \in {"connect", "failed"}
            /\ pc[p] = "failed" => err[p] = "open_failed"
            /\ log[p] = << >>
            /\ conn[p] = "none"
            /\ Store = pre[p]
            /\ ~file

C6_Witness ==
    /\ pc[1] = "failed" /\ err[1] = "open_failed"
    /\ parent = "readonly" /\ ~file

\* C7 as stated: in a run that started without the subscribers table, the
\* store does not hold the table until commit has completed.
C7_Original ==
    \A p \in Active :
        (~HadTable(p) /\ ~(\E i \in 1..Len(log[p]) : log[p][i] = "commit")) =>
            ~HasTable(db.catalog, TableName)

\* C7: in a run that started without the subscribers table, the store holds
\* the table exactly when the execute call has completed: a run that failed
\* after connect left the table uncreated, and commit changes nothing.
C7_DurableAtExecute ==
    \A p \in Active :
        ~HadTable(p) =>
            /\ HasTable(db.catalog, TableName)
                  <=> (\E i \in 1..Len(log[p]) : log[p][i] = "execute")
            /\ pc[p] = "failed" => ~HasTable(db.catalog, TableName)

C7_Witness ==
    pc[1] = "failed" /\ err[1] = "full" /\ conn[1] = "open" /\ ~HadTable(1)

\* C8: after initialize_db returned in a run that started with no file at the
\* location, the file exists and holds the subscribers table with no rows.
C8_FreshCreation ==
    \A p \in Active :
        (Returned(p) /\ ~pre[p].file) =>
            /\ file
            /\ parent = "writable"
            /\ OneTable(db.catalog)
            /\ db.rows = {}

C8_Witness ==
    pc[1] = "done" /\ ~pre[1].file /\ runs = 1

\* C9: in a run that started with a subscribers table of another shape, no
\* step raises and the schema and the rows stay as they were.
C9_MismatchKept ==
    \A p \in Active :
        (HadTable(p) /\ ~SpecifiedShape(TheTable(pre[p].db.catalog))) =>
            /\ db = pre[p].db
            /\ pc[p] # "failed"
            /\ err[p] = "none"

C9_Witness ==
    /\ pc[1] = "done"
    /\ HadTable(1)
    /\ ~SpecifiedShape(TheTable(db.catalog))
    /\ db.rows # {}

NoDuplicate == Cardinality(TablesNamed(db.catalog, TableName)) <= 1

NoExistsError == \A p \in Active : err[p] # "exists"

RowsKept == db.rows = hist[1].store.db.rows

LockedIsClean ==
    \A p \in Active : err[p] = "locked" => pc[p] = "failed" /\ ~wrote[p]

WholeTables ==
    \A i \in TablesNamed(db.catalog, TableName) :
        \/ db.catalog[i] = SubscribersTable
        \/ /\ HasTable(hist[1].store.db.catalog, TableName)
           /\ db.catalog[i] = TheTable(hist[1].store.db.catalog)

\* C10 as stated: with two processes, every run that completed leaves exactly
\* one subscribers table with the specified schema; no duplicate table, no
\* 'table already exists' error, no change to rows, and a run that found the
\* lock taken ends with an error and wrote nothing.
C10_Original ==
    /\ \A p \in Active :
          Returned(p) =>
              /\ OneTable(db.catalog)
              /\ SpecifiedShape(TheTable(db.catalog))
    /\ NoDuplicate /\ NoExistsError /\ RowsKept /\ LockedIsClean /\ WholeTables

\* C10: as stated, except that the table has the specified schema only when
\* no subscribers table of another shape was at the location before the runs.
C10_Concurrent ==
    /\ \A p \in Active :
          Returned(p) =>
              /\ OneTable(db.catalog)
              /\ HasTable(hist[1].store.db.catalog, TableName)
                    => TheTable(db.catalog) = TheTable(hist[1].store.db.catalog)
              /\ ~HasTable(hist[1].store.db.catalog, TableName)
                    => SpecifiedShape(TheTable(db.catalog))
    /\ NoDuplicate /\ NoExistsError /\ RowsKept /\ LockedIsClean /\ WholeTables

C10_Witness ==
    \E p \in Active, q \in Active :
        /\ pc[p] = "done" /\ wrote[p]
        /\ pc[q] = "failed" /\ err[q] = "locked"
        /\ ~HasTable(hist[1].store.db.catalog, TableName)
====
